---- MODULE Spec2Model ----
(***************************************************************************)
(* Conditional distributions of janelia_core/ml/torch_distributions.py:    *)
(* CondBernoulliDistribution, CondGaussianDistribution,                    *)
(* CondSpikeSlabDistribution and CondMatrixProductDistribution, with the   *)
(* operations forward, sample, form_standard_sample, form_compact_sample,  *)
(* log_prob, r_params, s_params and kl of the base class                   *)
(* CondVAEDistriubtion.                                                    *)
(*                                                                         *)
(* Values are tagged records.  A Python exception is the value Err(e); an  *)
(* operation whose argument evaluation raised returns that error.          *)
(* Sample values are integers.  A log-probability is kept in closed form:  *)
(*   LL(q, p, c)  stands for  -q/2 + log(p) - (c/2)*log(2*pi)              *)
(* with q and p rationals, so sums and differences of log-probabilities    *)
(* are exact.                                                              *)
(***************************************************************************)
EXTENDS Integers, Sequences, FiniteSets, TLC

(* ------------------------------ bounds -------------------------------- *)
\* largest number of rows of the conditioning batch x
MaxN == 2
\* largest number of variables d of a Gaussian or spike-and-slab distribution
MaxD == 2
\* largest number of columns of a matrix-product distribution
MaxCols == 2
\* values of a row of x (d_x = 1)
XVals == {0, 1}
\* values of one entry of the standard-normal noise of torch.randn_like
ZVals == {0, 1}

(* ----------------------------- rationals ------------------------------ *)
RECURSIVE GCD(_, _)
GCD(a, b) == IF b = 0 THEN a ELSE GCD(b, a % b)

Abs(a) == IF a < 0 THEN -a ELSE a

\* the rational n/d (d # 0) in lowest terms with a positive denominator
Rat(n, d) ==
    LET g == GCD(Abs(n), Abs(d))
        s == IF d < 0 THEN -1 ELSE 1
    IN  <<(s * n) \div g, (s * d) \div g>>

RatAdd(a, b) == Rat(a[1] * b[2] + b[1] * a[2], a[2] * b[2])
RatSub(a, b) == Rat(a[1] * b[2] - b[1] * a[2], a[2] * b[2])
RatMul(a, b) == Rat(a[1] * b[1], a[2] * b[2])
RatDiv(a, b) == Rat(a[1] * b[2], a[2] * b[1])
RatInt(k) == <<k, 1>>

RECURSIVE RatSum(_)
RatSum(s) == IF s = <<>> THEN RatInt(0) ELSE RatAdd(Head(s), RatSum(Tail(s)))

RECURSIVE RatProd(_)
RatProd(s) == IF s = <<>> THEN RatInt(1) ELSE RatMul(Head(s), RatProd(Tail(s)))

(* -------------------------- log-probabilities ------------------------- *)
\* -q/2 + log(p) - (c/2)*log(2*pi)
LL(q, p, c) == [q |-> q, p |-> p, c |-> c]
LLZero == LL(RatInt(0), RatInt(1), 0)
\* log(p)
LLLog(p) == LL(RatInt(0), p, 0)
LLAdd(a, b) == LL(RatAdd(a.q, b.q), RatMul(a.p, b.p), a.c + b.c)
LLSub(a, b) == LL(RatSub(a.q, b.q), RatDiv(a.p, b.p), a.c - b.c)
\* torch.log(1 - torch.exp(a)) of a = log(p)
LLLog1mExp(a) == LLLog(RatSub(RatInt(1), a.p))

(* ------------------------------- values ------------------------------- *)
None == [t |-> "None"]
Err(e) == [t |-> "error", exc |-> e]
IsErr(v) == v.t = "error"
IsNone(v) == v.t = "None"
IsTensor(v) == v.t = "tensor"
IsList(v) == v.t = "list"

\* a tensor of shape [Len(v)] of numbers
T1(dtype, v) == [t |-> "tensor", rank |-> 1, dtype |-> dtype, v1 |-> v]
\* a tensor of shape [Len(v), cols] of numbers, v the sequence of its rows
T2(dtype, cols, v) == [t |-> "tensor", rank |-> 2, dtype |-> dtype, cols |-> cols, v2 |-> v]
\* a tensor of shape [Len(v)] of log-probabilities
L1(v) == [t |-> "tensor", rank |-> 1, dtype |-> "float", ll1 |-> v]
\* a tensor of shape [] holding one log-probability
L0(e) == [t |-> "tensor", rank |-> 0, dtype |-> "float", ll0 |-> e]
\* a tensor of shape [Len(v), 1, 1] of numbers
T3(dtype, v) == [t |-> "tensor", rank |-> 3, dtype |-> dtype, v3 |-> v]
IsL1(v) == IsTensor(v) /\ v.rank = 1 /\ "ll1" \in DOMAIN v
IsT1(v) == IsTensor(v) /\ v.rank = 1 /\ "v1" \in DOMAIN v
IsT2(v) == IsTensor(v) /\ v.rank = 2 /\ "v2" \in DOMAIN v

\* shape[0] of a tensor of rank 1 or 2
Rows(v) == IF IsT1(v) THEN Len(v.v1) ELSE IF IsT2(v) THEN Len(v.v2) ELSE Len(v.ll1)

\* the Python list of parameters that r_params and s_params return
ParamList(params) == [t |-> "list", params |-> params]
\* the Python list [n_smps, support, nz_vls] of the spike-and-slab compact sample
List3(n, support, nz) == [t |-> "list", n_smps |-> n, support |-> support, nz_vls |-> nz]
\* a Python list of per-column values
ListOf(items) == [t |-> "list", items |-> items]
IsList3(v) == IsList(v) /\ "n_smps" \in DOMAIN v
IsListOf(v) == IsList(v) /\ "items" \in DOMAIN v

\* the first error of a sequence of values, in order of evaluation
RECURSIVE FirstErr(_)
FirstErr(s) ==
    IF s = <<>> THEN None
    ELSE IF IsErr(Head(s)) THEN Head(s) ELSE FirstErr(Tail(s))

(* ---------------------------- distributions --------------------------- *)
\* log_prob_fcn modules: f is P(y = 1 | x row), a rational strictly between 0 and 1,
\* parameters the trainable tensors of the module, named by their identity
HalfEverywhere == [f |-> [xr \in XVals |-> Rat(1, 2)], parameters |-> <<"half.bias">>]
QuarterThenMore ==
    [f |-> [xr \in XVals |-> Rat(1 + 2 * xr, 4)], parameters |-> <<"quarter.weight">>]
LogProbFcns == {HalfEverywhere, QuarterThenMore}

\* mn_f and std_f modules: the mean is mn + slope * (x row), the scale is std;
\* mn_f_parameters and std_f_parameters are the trainable tensors of the two modules
StdNormalFcns ==
    [mn |-> 0, slope |-> 0, std |-> 1,
     mn_f_parameters |-> <<"zero.bias">>, std_f_parameters |-> <<"unit.bias">>]
SlopedWideFcns ==
    [mn |-> 0, slope |-> 1, std |-> 2,
     mn_f_parameters |-> <<"sloped.weight">>, std_f_parameters |-> <<"wide.bias">>]
GaussianFcns == {StdNormalFcns, SlopedWideFcns}

\* a log_prob_fcn and an mn_f built on one trunk module, whose weight both contain
TrunkGate ==
    [f |-> [xr \in XVals |-> Rat(2 + xr, 4)], parameters |-> <<"trunk.weight", "gate.weight">>]
TrunkFcns ==
    [mn |-> 1, slope |-> 1, std |-> 1,
     mn_f_parameters |-> <<"trunk.weight", "mean.weight">>, std_f_parameters |-> <<"scale.bias">>]

CondBernoulliDistribution(log_prob_fcn) ==
    [kind |-> "Bernoulli", log_prob_fcn |-> log_prob_fcn]

CondGaussianDistribution(f, d_y) ==
    [kind |-> "Gaussian", mn |-> f.mn, slope |-> f.slope, std |-> f.std, d_y |-> d_y,
     mn_f_parameters |-> f.mn_f_parameters, std_f_parameters |-> f.std_f_parameters]

CondSpikeSlabDistribution(d, spike_d, slab_d) ==
    [kind |-> "SpikeSlab", d |-> d, spike_d |-> spike_d, slab_d |-> slab_d]

CondMatrixProductDistribution(dists) ==
    [kind |-> "MatrixProduct", dists |-> dists]

Bernoullis == {CondBernoulliDistribution(f) : f \in LogProbFcns}
Gaussians == {CondGaussianDistribution(f, d) : f \in GaussianFcns, d \in 1..MaxD}
\* a spike-and-slab distribution has a Bernoulli spike and a Gaussian slab over d variables
SpikeSlabFcns ==
    {<<HalfEverywhere, StdNormalFcns>>, <<QuarterThenMore, SlopedWideFcns>>, <<TrunkGate, TrunkFcns>>}
SpikeSlabs ==
    {CondSpikeSlabDistribution(d, CondBernoulliDistribution(f[1]), CondGaussianDistribution(f[2], d)) :
        d \in 1..MaxD, f \in SpikeSlabFcns}
\* spike-and-slab distributions over one variable whose slab is not Gaussian: a Bernoulli
\* slab, and a slab that is itself a spike-and-slab distribution.  The constructor takes
\* any distribution as spike_d and slab_d; of these only the parameter lists are asked
MixedSpikeSlabs ==
    {CondSpikeSlabDistribution(1, CondBernoulliDistribution(HalfEverywhere),
                               CondBernoulliDistribution(QuarterThenMore)),
     CondSpikeSlabDistribution(1, CondBernoulliDistribution(QuarterThenMore),
        CondSpikeSlabDistribution(1, CondBernoulliDistribution(HalfEverywhere),
                                  CondGaussianDistribution(StdNormalFcns, 1)))}
\* the column distributions of a matrix product, one of each variant, each over one
\* variable, in the order they take as columns
ColOrder ==
    <<CondGaussianDistribution(SlopedWideFcns, 1),
      CondBernoulliDistribution(QuarterThenMore),
      CondSpikeSlabDistribution(1, CondBernoulliDistribution(HalfEverywhere),
                                CondGaussianDistribution(StdNormalFcns, 1))>>
ColDists == {ColOrder[i] : i \in 1..Len(ColOrder)}
\* the columns of ColOrder at the positions I, in order
RECURSIVE Columns(_, _)
Columns(I, i) ==
    IF i > Len(ColOrder) THEN <<>>
    ELSE (IF i \in I THEN <<ColOrder[i]>> ELSE <<>>) \o Columns(I, i + 1)
\* 1..MaxCols columns of pairwise different variants
MatrixProducts ==
    {CondMatrixProductDistribution(Columns(I, 1)) :
        I \in {J \in SUBSET (1..Len(ColOrder)) : Cardinality(J) \in 1..MaxCols}}
Dists == Bernoullis \cup Gaussians \cup SpikeSlabs \cup MatrixProducts

\* type(d): the concrete class of a distribution
TypeOf(d) == d.kind

\* the conditioning batches: n rows (1 <= n <= MaxN) that alternate between the
\* values of XVals, so that neighbouring rows condition differently
Batches == {[i \in 1..n |-> (i + s) % 2] : n \in 1..MaxN, s \in XVals}

\* the distribution of the same structure as d built on the other sub-function modules
RECURSIVE Reparam(_)
Reparam(d) ==
    CASE d.kind = "Bernoulli" ->
            CondBernoulliDistribution(CHOOSE f \in LogProbFcns : f # d.log_prob_fcn)
      [] d.kind = "Gaussian" ->
            CondGaussianDistribution(CHOOSE f \in GaussianFcns : f.std # d.std, d.d_y)
      [] d.kind = "SpikeSlab" ->
            CondSpikeSlabDistribution(d.d, Reparam(d.spike_d), Reparam(d.slab_d))
      [] d.kind = "MatrixProduct" ->
            CondMatrixProductDistribution([j \in 1..Len(d.dists) |-> Reparam(d.dists[j])])

\* the distributions d_2 a caller compares d with: d itself, the same structure on
\* other sub-functions, and the column distributions (one of each leaf and composite
\* variant) alone and as a one-column matrix product
Partners(d) ==
    {d, Reparam(d)} \cup ColDists
        \cup {CondMatrixProductDistribution(<<c>>) : c \in {CondGaussianDistribution(SlopedWideFcns, 1)}}

(* ------------------------- sub-function modules ----------------------- *)
\* self.log_prob_fcn(x): P(y = 1 | x[i]) for each row, as log-probabilities
log_prob_fcn(d, x) == [i \in 1..Len(x) |-> LLLog(d.log_prob_fcn.f[x[i]])]
\* self.mn_f(x): rows of d_y means
mn_f(d, x) == [i \in 1..Len(x) |-> [j \in 1..d.d_y |-> d.mn + d.slope * x[i]]]
\* self.std_f(x): rows of d_y scales
std_f(d, x) == [i \in 1..Len(x) |-> [j \in 1..d.d_y |-> d.std]]

(* ----------------------------- parameters ----------------------------- *)
\* s without the repetitions of an entry after its first occurrence
RECURSIVE Dedup(_)
Dedup(s) ==
    IF s = <<>> THEN <<>>
    ELSE LET front == Dedup(SubSeq(s, 1, Len(s) - 1))
             last == s[Len(s)]
         IN  IF \E i \in 1..Len(front) : front[i] = last THEN front ELSE front \o <<last>>

\* the concatenation of the sequences s[1], ..., s[k]
RECURSIVE Flatten(_, _)
Flatten(s, k) == IF k = 0 THEN <<>> ELSE Flatten(s, k - 1) \o s[k]

\* torch.nn.Module.parameters(): the trainable tensors of the sub-modules of d in the
\* order of their registration, each once
RECURSIVE parameters(_)
parameters(d) ==
    CASE d.kind = "Bernoulli" -> Dedup(d.log_prob_fcn.parameters)
      [] d.kind = "Gaussian" -> Dedup(d.mn_f_parameters \o d.std_f_parameters)
      [] d.kind = "SpikeSlab" -> Dedup(parameters(d.spike_d) \o parameters(d.slab_d))
      [] d.kind = "MatrixProduct" ->
            Dedup(Flatten([j \in 1..Len(d.dists) |-> parameters(d.dists[j])], Len(d.dists)))

RECURSIVE r_params(_)
RECURSIVE s_params(_)

CondBernoulliDistribution_r_params(d) == <<>>
CondBernoulliDistribution_s_params(d) == parameters(d)

\* Gaussian r_params that lists the parameters of the mean function only
CondGaussianDistribution_r_params_mean_only(d) == Dedup(d.mn_f_parameters)

CondGaussianDistribution_r_params(d) == parameters(d)
CondGaussianDistribution_s_params(d) == <<>>

\* spike-and-slab s_params that lists every parameter of the distribution
CondSpikeSlabDistribution_s_params_all(d) == parameters(d)

\* spike-and-slab r_params that lists every parameter of the distribution
CondSpikeSlabDistribution_r_params_all(d) == parameters(d)

CondSpikeSlabDistribution_r_params(d) == r_params(d.slab_d)
CondSpikeSlabDistribution_s_params(d) == s_params(d.spike_d)

CondMatrixProductDistribution_r_params(d) == parameters(d)
CondMatrixProductDistribution_s_params(d) == <<>>

r_params(d) ==
    CASE d.kind = "Bernoulli" -> CondBernoulliDistribution_r_params(d)
      [] d.kind = "Gaussian" -> CondGaussianDistribution_r_params(d)
      [] d.kind = "SpikeSlab" -> CondSpikeSlabDistribution_r_params(d)
      [] d.kind = "MatrixProduct" -> CondMatrixProductDistribution_r_params(d)

s_params(d) ==
    CASE d.kind = "Bernoulli" -> CondBernoulliDistribution_s_params(d)
      [] d.kind = "Gaussian" -> CondGaussianDistribution_s_params(d)
      [] d.kind = "SpikeSlab" -> CondSpikeSlabDistribution_s_params(d)
      [] d.kind = "MatrixProduct" -> CondMatrixProductDistribution_s_params(d)

(* ------------------------------ indexing ------------------------------ *)
\* the positions i of a 0/1 mask with mask[i] # 0, in increasing order
RECURSIVE NzPos(_, _)
NzPos(mask, i) ==
    IF i > Len(mask) THEN <<>>
    ELSE IF mask[i] # 0 THEN <<i>> \o NzPos(mask, i + 1) ELSE NzPos(mask, i + 1)

\* s[mask]: the entries of s at the nonzero positions of mask (Len(mask) = Len(s))
MaskSelect(s, mask) == LET pos == NzPos(mask, 1) IN [j \in 1..Len(pos) |-> s[pos[j]]]

\* the number of nonzero positions among the first i positions of mask
RECURSIVE NzBefore(_, _)
NzBefore(mask, i) ==
    IF i = 0 THEN 0 ELSE NzBefore(mask, i - 1) + (IF mask[i] # 0 THEN 1 ELSE 0)

\* Python any(t) over the rows of a tensor raises when a row has more than one entry
AnyRaises(t) == IsT2(t) /\ Rows(t) > 0 /\ t.cols > 1
AnyOf(t) ==
    IF IsT1(t) THEN \E i \in 1..Len(t.v1) : t.v1[i] # 0
    ELSE \E i \in 1..Len(t.v2) : t.v2[i][1] # 0

RECURSIVE sample(_, _)
RECURSIVE form_standard_sample(_, _)
RECURSIVE form_compact_sample(_, _)
RECURSIVE log_prob(_, _, _)

\* all sequences whose j-th entry is drawn from the j-th set
RECURSIVE SeqProduct(_)
SeqProduct(sets) ==
    IF sets = <<>> THEN {<<>>}
    ELSE {<<h>> \o tl : h \in Head(sets), tl \in SeqProduct(Tail(sets))}

(* ------------------------------- sample ------------------------------- *)
\* the evaluation module(x) of a sub-function module, made while an operation runs
Eval(module, x) == [obj |-> module, method |-> "__call__", x |-> x]
\* the call obj.method(x, y) made while an operation runs (y is None for sample)
CallX(obj, method, x, y) == [obj |-> obj, method |-> method, x |-> x, y |-> y]

\* the values sample(x) can return: one Bernoulli trial per row, as bytes
CondBernoulliDistribution_sample(d, x) ==
    {T1("uint8", s) : s \in [1..Len(x) -> {0, 1}]}

\* mn + z*std for every noise tensor z of the shape of std
CondGaussianDistribution_sample(d, x) ==
    LET mn == mn_f(d, x)
        std == std_f(d, x)
    IN  {T2("float", d.d_y,
            [i \in 1..Len(x) |-> [j \in 1..d.d_y |-> mn[i][j] + z[i][j] * std[i][j]]]) :
         z \in [1..Len(x) -> [1..d.d_y -> ZVals]]}

\* spike-and-slab sample that samples the slab on every row of x and keeps the values
\* of the rows of support
CondSpikeSlabDistribution_sample_run_all_rows(d, x) ==
    LET n_smps == Len(x)
        supports == {form_standard_sample(d.spike_d, s) : s \in sample(d.spike_d, x)}
        spike_calls == <<CallX("spike_d", "sample", x, None)>>
    IN  UNION {IF AnyOf(support)
               THEN {[ret |-> List3(n_smps, support,
                                    T2(vls.dtype, vls.cols, MaskSelect(vls.v2, support.v1))),
                      calls |-> spike_calls \o <<CallX("slab_d", "sample", x, None)>>] :
                        vls \in sample(d.slab_d, x)}
               ELSE {[ret |-> List3(n_smps, support, None), calls |-> spike_calls]} :
               support \in supports}

\* CondSpikeSlabDistribution.sample: ret is a value [n_smps, support, nz_vls] it can
\* return, calls the sample calls made on the spike and the slab for it, in order; the
\* slab is sampled on the rows x[support, :] only
CondSpikeSlabDistribution_sample_run(d, x) ==
    LET n_smps == Len(x)
        supports == {form_standard_sample(d.spike_d, s) : s \in sample(d.spike_d, x)}
        spike_calls == <<CallX("spike_d", "sample", x, None)>>
    IN  UNION {IF AnyOf(support)
               THEN LET x_nz == MaskSelect(x, support.v1)
                    IN  {[ret |-> List3(n_smps, support, nz_vls),
                          calls |-> spike_calls \o <<CallX("slab_d", "sample", x_nz, None)>>] :
                            nz_vls \in sample(d.slab_d, x_nz)}
               ELSE {[ret |-> List3(n_smps, support, None), calls |-> spike_calls]} :
               support \in supports}

CondSpikeSlabDistribution_sample(d, x) ==
    {r.ret : r \in CondSpikeSlabDistribution_sample_run(d, x)}

\* one compact sample per column
CondMatrixProductDistribution_sample(d, x) ==
    {ListOf(s) : s \in SeqProduct([j \in 1..Len(d.dists) |-> sample(d.dists[j], x)])}

sample(d, x) ==
    CASE d.kind = "Bernoulli" -> CondBernoulliDistribution_sample(d, x)
      [] d.kind = "Gaussian" -> CondGaussianDistribution_sample(d, x)
      [] d.kind = "SpikeSlab" -> CondSpikeSlabDistribution_sample(d, x)
      [] d.kind = "MatrixProduct" -> CondMatrixProductDistribution_sample(d, x)

\* the values sample(x) can return, each with the calls made on the sub-function modules
\* or the child distributions of d to draw it, in order
sample_run(d, x) ==
    CASE d.kind = "Bernoulli" ->
            {[ret |-> s, calls |-> <<Eval("log_prob_fcn", x)>>] :
                s \in CondBernoulliDistribution_sample(d, x)}
      [] d.kind = "Gaussian" ->
            {[ret |-> s, calls |-> <<Eval("mn_f", x), Eval("std_f", x)>>] :
                s \in CondGaussianDistribution_sample(d, x)}
      [] d.kind = "SpikeSlab" -> CondSpikeSlabDistribution_sample_run(d, x)
      [] d.kind = "MatrixProduct" ->
            {[ret |-> s, calls |-> [j \in 1..Len(d.dists) |-> CallX("dists", "sample", x, None)]] :
                s \in CondMatrixProductDistribution_sample(d, x)}

(* ------------------------ form_standard_sample ------------------------ *)
CondBernoulliDistribution_form_standard_sample(d, smp) == smp

CondGaussianDistribution_form_standard_sample(d, smp) == smp

\* torch.zeros([n, c])
Zeros2(n, c) == T2("float", c, [i \in 1..n |-> [j \in 1..c |-> 0]])

\* spike-and-slab form_standard_sample without the case of a sample that has no value:
\* nz_vls.shape is read whatever nz_vls is
CondSpikeSlabDistribution_form_standard_sample_no_zero_case(d, smp) ==
    IF IsNone(smp) THEN Err("TypeError")
    ELSE IF IsTensor(smp) THEN
        IF Rows(smp) # 3 THEN Err("ValueError") ELSE Err("TypeError")
    ELSE IF IsNone(smp.nz_vls) THEN Err("AttributeError")
    ELSE IF ~(IsT1(smp.support) /\ Rows(smp.support) = smp.n_smps) THEN Err("IndexError")
    ELSE LET k == Len(NzPos(smp.support.v1, 1))
         IN  IF ~(smp.nz_vls.rank = 2 /\ Rows(smp.nz_vls) = k /\ smp.nz_vls.cols = d.d)
             THEN Err("RuntimeError")
             ELSE T2("float", d.d,
                     [i \in 1..smp.n_smps |-> [j \in 1..d.d |->
                         IF smp.support.v1[i] # 0
                         THEN smp.nz_vls.v2[NzBefore(smp.support.v1, i)][j]
                         ELSE 0]])

\* n_smps, support, nz_vls = smp, then the dense tensor with nz_vls at the rows of support.
\* smp is None, a tensor (unpacked by rows) or the list of three.
CondSpikeSlabDistribution_form_standard_sample(d, smp) ==
    IF IsNone(smp) THEN Err("TypeError")
    ELSE IF IsTensor(smp) THEN
        \* three rows unpack to three tensors, and torch.zeros of a tensor size raises
        IF Rows(smp) # 3 THEN Err("ValueError") ELSE Err("TypeError")
    ELSE
        LET n_smps == smp.n_smps
            support == smp.support
            nz_vls == smp.nz_vls
        IN  IF IsNone(nz_vls) THEN Zeros2(n_smps, d.d)
            ELSE IF ~(IsT1(support) /\ Rows(support) = n_smps) THEN Err("IndexError")
            ELSE LET k == Len(NzPos(support.v1, 1))
                     src(i) == IF Rows(nz_vls) = 1 THEN 1 ELSE NzBefore(support.v1, i)
                 IN  IF nz_vls.rank > 1 THEN
                         IF ~(Rows(nz_vls) \in {k, 1} /\ nz_vls.cols \in {d.d, 1})
                         THEN Err("RuntimeError")
                         ELSE T2("float", d.d,
                                 [i \in 1..n_smps |-> [j \in 1..d.d |->
                                     IF support.v1[i] # 0
                                     THEN nz_vls.v2[src(i)][IF nz_vls.cols = 1 THEN 1 ELSE j]
                                     ELSE 0]])
                     ELSE
                         IF ~(Rows(nz_vls) \in {k, 1}) THEN Err("RuntimeError")
                         ELSE T1("float",
                                 [i \in 1..n_smps |->
                                     IF support.v1[i] # 0 THEN nz_vls.v1[src(i)] ELSE 0])

\* torch.cat(parts, dim=1) of tensors of numbers
TorchCat(parts) ==
    IF parts = <<>> THEN Err("RuntimeError")
    ELSE IF \A j \in 1..Len(parts) : parts[j].rank = 1 THEN Err("IndexError")
    ELSE IF \E j \in 1..Len(parts) : parts[j].rank # 2 \/ Rows(parts[j]) # Rows(parts[1])
         THEN Err("RuntimeError")
    ELSE LET RECURSIVE RowCat(_, _)
             RowCat(i, j) == IF j > Len(parts) THEN <<>>
                             ELSE parts[j].v2[i] \o RowCat(i, j + 1)
             RECURSIVE Width(_)
             Width(j) == IF j > Len(parts) THEN 0 ELSE parts[j].cols + Width(j + 1)
         IN  T2("float", Width(1), [i \in 1..Rows(parts[1]) |-> RowCat(i, 1)])

Min(a, b) == IF a < b THEN a ELSE b

\* torch.cat([d.form_standard_sample(s) for s, d in zip(smp, self.dists)], dim=1)
CondMatrixProductDistribution_form_standard_sample(d, smp) ==
    IF IsNone(smp) THEN Err("TypeError")
    ELSE LET m == Min(Len(smp.items), Len(d.dists))
             parts == [j \in 1..m |-> form_standard_sample(d.dists[j], smp.items[j])]
         IN  IF ~IsNone(FirstErr(parts)) THEN FirstErr(parts) ELSE TorchCat(parts)

form_standard_sample(d, smp) ==
    CASE d.kind = "Bernoulli" -> CondBernoulliDistribution_form_standard_sample(d, smp)
      [] d.kind = "Gaussian" -> CondGaussianDistribution_form_standard_sample(d, smp)
      [] d.kind = "SpikeSlab" -> CondSpikeSlabDistribution_form_standard_sample(d, smp)
      [] d.kind = "MatrixProduct" -> CondMatrixProductDistribution_form_standard_sample(d, smp)

(* ------------------------- form_compact_sample ------------------------ *)
CondBernoulliDistribution_form_compact_sample(d, smp) == smp

CondGaussianDistribution_form_compact_sample(d, smp) == smp

\* the number of nonzero entries of a row
RECURSIVE CountNz(_)
CountNz(row) ==
    IF row = <<>> THEN 0 ELSE (IF Head(row) # 0 THEN 1 ELSE 0) + CountNz(Tail(row))

\* smp != 0, of the shape of smp
NotZero(smp) ==
    IF smp.rank = 1 THEN T1("bool", [i \in 1..Rows(smp) |-> IF smp.v1[i] # 0 THEN 1 ELSE 0])
    ELSE T2("bool", smp.cols,
            [i \in 1..Rows(smp) |-> [j \in 1..smp.cols |-> IF smp.v2[i][j] # 0 THEN 1 ELSE 0]])

\* smp[support, :]: a mask of rank 1 selects rows of a matrix; a mask of the rank of
\* smp uses up all its dimensions and leaves none for the ':'
RowsAt(smp, support) ==
    IF support.rank = 1 /\ smp.rank = 2 /\ Rows(support) = Rows(smp)
    THEN T2(smp.dtype, smp.cols, MaskSelect(smp.v2, support.v1))
    ELSE Err("IndexError")

\* spike-and-slab form_compact_sample that takes a row as active when any of its entries
\* is nonzero
CondSpikeSlabDistribution_form_compact_sample_any_nonzero(d, smp) ==
    IF ~IsTensor(smp) THEN Err("AttributeError")
    ELSE IF smp.rank # 2 THEN Err("IndexError")
    ELSE LET n_smps == Rows(smp)
             support == T1("bool", [i \in 1..n_smps |-> IF CountNz(smp.v2[i]) > 0 THEN 1 ELSE 0])
         IN  IF AnyOf(support)
             THEN List3(n_smps, support, RowsAt(smp, support))
             ELSE List3(n_smps, support, None)

CondSpikeSlabDistribution_form_compact_sample(d, smp) ==
    IF ~IsTensor(smp) THEN Err("AttributeError")
    ELSE LET n_smps == Rows(smp)
             support ==
                 IF d.d > 1
                 THEN IF smp.rank # 2 THEN Err("IndexError")
                      ELSE T1("bool", [i \in 1..n_smps |->
                                          IF CountNz(smp.v2[i]) = d.d THEN 1 ELSE 0])
                 ELSE NotZero(smp)
         IN  IF IsErr(support) THEN support
             ELSE IF AnyRaises(support) THEN Err("RuntimeError")
             ELSE IF AnyOf(support)
                  THEN LET nz_vls == RowsAt(smp, support)
                       IN  IF IsErr(nz_vls) THEN nz_vls ELSE List3(n_smps, support, nz_vls)
                  ELSE List3(n_smps, support, None)

\* smp[:, c_i].view([n_rows, 1]) for every column, then, as the code has it,
\* d.form_standard_sample on each column
CondMatrixProductDistribution_form_compact_sample(d, smp) ==
    IF ~IsTensor(smp) THEN Err("AttributeError")
    ELSE IF smp.rank # 2 THEN Err("ValueError")
    ELSE LET n_rows == Rows(smp)
             n_cols == smp.cols
             col_smps == [c_i \in 1..n_cols |->
                             T2(smp.dtype, 1, [i \in 1..n_rows |-> <<smp.v2[i][c_i]>>])]
             m == Min(n_cols, Len(d.dists))
             formed == [j \in 1..m |-> form_standard_sample(d.dists[j], col_smps[j])]
         IN  IF ~IsNone(FirstErr(formed)) THEN FirstErr(formed) ELSE ListOf(formed)

form_compact_sample(d, smp) ==
    CASE d.kind = "Bernoulli" -> CondBernoulliDistribution_form_compact_sample(d, smp)
      [] d.kind = "Gaussian" -> CondGaussianDistribution_form_compact_sample(d, smp)
      [] d.kind = "SpikeSlab" -> CondSpikeSlabDistribution_form_compact_sample(d, smp)
      [] d.kind = "MatrixProduct" -> CondMatrixProductDistribution_form_compact_sample(d, smp)

(* ------------------------------ log_prob ------------------------------ *)
\* Bernoulli log_prob with the rank test moved behind the evaluation of log_prob_fcn
CondBernoulliDistribution_log_prob_run_late_check(d, x, y) ==
    IF ~IsTensor(y) THEN [ret |-> Err("AttributeError"), calls |-> <<>>]
    ELSE LET n_smps == Len(x)
             log_nz_prob == log_prob_fcn(d, x)
             calls == <<Eval("log_prob_fcn", x)>>
         IN  IF y.rank # 1 THEN [ret |-> Err("ValueError"), calls |-> calls]
             ELSE IF Rows(y) # n_smps THEN [ret |-> Err("IndexError"), calls |-> calls]
             ELSE [ret |-> L1([i \in 1..n_smps |->
                                 IF y.v1[i] # 0 THEN log_nz_prob[i]
                                 ELSE LLLog1mExp(log_nz_prob[i])]),
                   calls |-> calls]

\* Bernoulli log_prob with the two cases exchanged: log_prob_fcn(x)[i] where y[i] = 0
CondBernoulliDistribution_log_prob_run_exchanged(d, x, y) ==
    IF ~IsTensor(y) THEN [ret |-> Err("AttributeError"), calls |-> <<>>]
    ELSE IF y.rank # 1 THEN [ret |-> Err("ValueError"), calls |-> <<>>]
    ELSE LET n_smps == Len(x)
             log_nz_prob == log_prob_fcn(d, x)
             calls == <<Eval("log_prob_fcn", x)>>
         IN  IF Rows(y) # n_smps THEN [ret |-> Err("IndexError"), calls |-> calls]
             ELSE [ret |-> L1([i \in 1..n_smps |->
                                 IF y.v1[i] = 0 THEN log_nz_prob[i]
                                 ELSE LLLog1mExp(log_nz_prob[i])]),
                   calls |-> calls]

\* CondBernoulliDistribution.log_prob: ret is the value returned or the error raised,
\* calls the evaluations of log_prob_fcn made on the way.  y must be a tensor of rank 1;
\* entry i is log_prob_fcn(x)[i] where y[i] # 0 and log(1 - exp(log_prob_fcn(x)[i]))
\* where y[i] = 0
CondBernoulliDistribution_log_prob_run(d, x, y) ==
    IF ~IsTensor(y) THEN [ret |-> Err("AttributeError"), calls |-> <<>>]
    ELSE IF y.rank # 1 THEN [ret |-> Err("ValueError"), calls |-> <<>>]
    ELSE LET n_smps == Len(x)
             log_nz_prob == log_prob_fcn(d, x)
             calls == <<Eval("log_prob_fcn", x)>>
         IN  IF Rows(y) # n_smps THEN [ret |-> Err("IndexError"), calls |-> calls]
             ELSE [ret |-> L1([i \in 1..n_smps |->
                                 IF y.v1[i] # 0 THEN log_nz_prob[i]
                                 ELSE LLLog1mExp(log_nz_prob[i])]),
                   calls |-> calls]

CondBernoulliDistribution_log_prob(d, x, y) == CondBernoulliDistribution_log_prob_run(d, x, y).ret

\* y.unsqueeze(1): a tensor of rank 1 becomes one column
Unsqueeze1(y) == T2(y.dtype, 1, [i \in 1..Rows(y) |-> <<y.v1[i]>>])

\* two sizes broadcast when they are equal or one of them is 1
Broadcasts(a, b) == a = b \/ a = 1 \/ b = 1
BroadcastSize(a, b) == IF a = 1 THEN b ELSE a
\* the index into a dimension of size a of entry i of the broadcast result
BIdx(a, i) == IF a = 1 THEN 1 ELSE i

\* ((v - mn)/std)**2
SqDev(v, mn, std) == Rat((v - mn) * (v - mn), std * std)

\* Gaussian log_prob without the term .5*d_y*log_2_pi
CondGaussianDistribution_log_prob_no_constant(d, x, y) ==
    IF ~IsTensor(y) THEN Err("AttributeError")
    ELSE LET y2 == IF y.rank = 1 THEN Unsqueeze1(y) ELSE y
             d_y == y2.cols
             mn == mn_f(d, x)
             std == std_f(d, x)
             n == Len(x)
             m == Rows(y2)
         IN  IF ~(Broadcasts(m, n) /\ Broadcasts(d_y, d.d_y)) THEN Err("RuntimeError")
             ELSE LET R == BroadcastSize(m, n)
                      W == BroadcastSize(d_y, d.d_y)
                      q(r) == RatSum([j \in 1..W |->
                                  SqDev(y2.v2[BIdx(m, r)][BIdx(d_y, j)],
                                        mn[BIdx(n, r)][BIdx(d.d_y, j)],
                                        std[BIdx(n, r)][BIdx(d.d_y, j)])])
                      p(r) == RatDiv(RatInt(1),
                                  RatProd([j \in 1..d.d_y |-> RatInt(std[BIdx(n, r)][j])]))
                  IN  L1([r \in 1..R |-> LL(q(r), p(r), 0)])

\* -.5*sum(((y - mn)/std)**2, 1) - sum(log(std), 1) - .5*d_y*log_2_pi, with the
\* broadcasting of y against mn and std that torch applies
CondGaussianDistribution_log_prob(d, x, y) ==
    IF ~IsTensor(y) THEN Err("AttributeError")
    ELSE LET y2 == IF y.rank = 1 THEN Unsqueeze1(y) ELSE y
             d_y == y2.cols
             mn == mn_f(d, x)
             std == std_f(d, x)
             n == Len(x)
             m == Rows(y2)
         IN  IF ~(Broadcasts(m, n) /\ Broadcasts(d_y, d.d_y)) THEN Err("RuntimeError")
             ELSE LET R == BroadcastSize(m, n)
                      W == BroadcastSize(d_y, d.d_y)
                      q(r) == RatSum([j \in 1..W |->
                                  SqDev(y2.v2[BIdx(m, r)][BIdx(d_y, j)],
                                        mn[BIdx(n, r)][BIdx(d.d_y, j)],
                                        std[BIdx(n, r)][BIdx(d.d_y, j)])])
                      p(r) == RatDiv(RatInt(1),
                                  RatProd([j \in 1..d.d_y |-> RatInt(std[BIdx(n, r)][j])]))
                  IN  L1([r \in 1..R |-> LL(q(r), p(r), d_y)])

\* a tensor of shape [] holding one number
T0(dtype, e) == [t |-> "tensor", rank |-> 0, dtype |-> dtype, v0 |-> e]

\* the i-th item of a tensor iterated over its first dimension
Item(y, i) == IF y.rank = 1 THEN T0(y.dtype, y.v1[i]) ELSE T1(y.dtype, y.v2[i])

\* log_prob of the spike-and-slab distribution without the any(support) test: the slab
\* is evaluated on nz_vls even when no row is active
CondSpikeSlabDistribution_log_prob_unguarded(d, x, y) ==
    IF IsNone(y) THEN Err("TypeError")
    ELSE IF IsTensor(y) /\ Rows(y) # 3 THEN Err("ValueError")
    ELSE LET support == IF IsTensor(y) THEN Item(y, 2) ELSE y.support
             nz_vls == IF IsTensor(y) THEN Item(y, 3) ELSE y.nz_vls
             ll == log_prob(d.spike_d, x, support)
         IN  IF IsErr(ll) THEN ll
             ELSE LET slab_ll == log_prob(d.slab_d, MaskSelect(x, support.v1), nz_vls)
                      k == Len(NzPos(support.v1, 1))
                  IN  IF IsErr(slab_ll) THEN slab_ll
                      ELSE IF ~(Rows(slab_ll) \in {k, 1}) THEN Err("RuntimeError")
                      ELSE L1([i \in 1..Rows(ll) |->
                                  IF support.v1[i] # 0
                                  THEN LLAdd(ll.ll1[i],
                                             slab_ll.ll1[BIdx(Rows(slab_ll), NzBefore(support.v1, i))])
                                  ELSE ll.ll1[i]])

\* spike-and-slab log_prob with the slab conditioned on the leading rows of x instead
\* of the rows x[support, :]
CondSpikeSlabDistribution_log_prob_run_leading_rows(d, x, y) ==
    IF IsNone(y) THEN [ret |-> Err("TypeError"), calls |-> <<>>]
    ELSE IF IsTensor(y) /\ Rows(y) # 3 THEN [ret |-> Err("ValueError"), calls |-> <<>>]
    ELSE LET support == IF IsTensor(y) THEN Item(y, 2) ELSE y.support
             nz_vls == IF IsTensor(y) THEN Item(y, 3) ELSE y.nz_vls
             ll == log_prob(d.spike_d, x, support)
             spike_call == <<CallX("spike_d", "log_prob", x, support)>>
         IN  IF IsErr(ll) THEN [ret |-> ll, calls |-> spike_call]
             ELSE IF AnyRaises(support) THEN [ret |-> Err("RuntimeError"), calls |-> spike_call]
             ELSE IF ~AnyOf(support) THEN [ret |-> ll, calls |-> spike_call]
             ELSE LET k == Len(NzPos(support.v1, 1))
                      x_nz == SubSeq(x, 1, k)
                      slab_ll == log_prob(d.slab_d, x_nz, nz_vls)
                      both == spike_call \o <<CallX("slab_d", "log_prob", x_nz, nz_vls)>>
                  IN  IF IsErr(slab_ll) THEN [ret |-> slab_ll, calls |-> both]
                      ELSE IF ~(Rows(slab_ll) \in {k, 1})
                           THEN [ret |-> Err("RuntimeError"), calls |-> both]
                      ELSE [ret |-> L1([i \in 1..Rows(ll) |->
                                  IF support.v1[i] # 0
                                  THEN LLAdd(ll.ll1[i],
                                             slab_ll.ll1[BIdx(Rows(slab_ll), NzBefore(support.v1, i))])
                                  ELSE ll.ll1[i]]),
                            calls |-> both]

\* CondSpikeSlabDistribution.log_prob: ret is the value returned or the error raised,
\* calls the log_prob calls made on the spike and the slab, in order.
\* n_smps, support, nz_vls = y (a list of three, or a tensor iterated by rows), then
\* the spike's log-probability of support, plus the slab's log-probability of
\* nz_vls on the rows of support
CondSpikeSlabDistribution_log_prob_run(d, x, y) ==
    IF IsNone(y) THEN [ret |-> Err("TypeError"), calls |-> <<>>]
    ELSE IF IsTensor(y) /\ Rows(y) # 3 THEN [ret |-> Err("ValueError"), calls |-> <<>>]
    ELSE LET support == IF IsTensor(y) THEN Item(y, 2) ELSE y.support
             nz_vls == IF IsTensor(y) THEN Item(y, 3) ELSE y.nz_vls
             ll == log_prob(d.spike_d, x, support)
             spike_call == <<CallX("spike_d", "log_prob", x, support)>>
         IN  IF IsErr(ll) THEN [ret |-> ll, calls |-> spike_call]
             ELSE IF AnyRaises(support) THEN [ret |-> Err("RuntimeError"), calls |-> spike_call]
             ELSE IF ~AnyOf(support) THEN [ret |-> ll, calls |-> spike_call]
             ELSE LET x_nz == MaskSelect(x, support.v1)
                      slab_ll == log_prob(d.slab_d, x_nz, nz_vls)
                      k == Len(NzPos(support.v1, 1))
                      both == spike_call \o <<CallX("slab_d", "log_prob", x_nz, nz_vls)>>
                  IN  IF IsErr(slab_ll) THEN [ret |-> slab_ll, calls |-> both]
                      ELSE IF ~(Rows(slab_ll) \in {k, 1})
                           THEN [ret |-> Err("RuntimeError"), calls |-> both]
                      ELSE [ret |-> L1([i \in 1..Rows(ll) |->
                                  IF support.v1[i] # 0
                                  THEN LLAdd(ll.ll1[i],
                                             slab_ll.ll1[BIdx(Rows(slab_ll), NzBefore(support.v1, i))])
                                  ELSE ll.ll1[i]]),
                            calls |-> both]

CondSpikeSlabDistribution_log_prob(d, x, y) == CondSpikeSlabDistribution_log_prob_run(d, x, y).ret

RECURSIVE LLSum(_)
LLSum(s) == IF s = <<>> THEN LLZero ELSE LLAdd(Head(s), LLSum(Tail(s)))

\* matrix-product log_prob with entry_ll summed along dim 0, over the rows of a column
CondMatrixProductDistribution_log_prob_sum_rows(d, x, y) ==
    IF IsNone(y) THEN Err("TypeError")
    ELSE LET n_rows == Len(x)
             m == Min(Len(y.items), Len(d.dists))
             col(j) == LET l == log_prob(d.dists[j], x, y.items[j])
                       IN  IF IsErr(l) THEN l
                           ELSE IF Rows(l) # n_rows THEN Err("RuntimeError") ELSE l
             entry_ll == [j \in 1..m |-> col(j)]
         IN  IF ~IsNone(FirstErr(entry_ll)) THEN FirstErr(entry_ll)
             ELSE IF m = 0 THEN Err("RuntimeError")
             ELSE L1([j \in 1..m |-> LLSum(entry_ll[j].ll1)])

\* every column's log_prob viewed as [n_rows, 1], concatenated and summed along dim 1
CondMatrixProductDistribution_log_prob(d, x, y) ==
    IF IsNone(y) THEN Err("TypeError")
    ELSE LET n_rows == Len(x)
             m == Min(Len(y.items), Len(d.dists))
             col(j) == LET l == log_prob(d.dists[j], x, y.items[j])
                       IN  IF IsErr(l) THEN l
                           ELSE IF Rows(l) # n_rows THEN Err("RuntimeError") ELSE l
             entry_ll == [j \in 1..m |-> col(j)]
         IN  IF ~IsNone(FirstErr(entry_ll)) THEN FirstErr(entry_ll)
             ELSE IF m = 0 THEN Err("RuntimeError")
             ELSE L1([i \in 1..n_rows |-> LLSum([j \in 1..m |-> entry_ll[j].ll1[i]])])

log_prob(d, x, y) ==
    CASE d.kind = "Bernoulli" -> CondBernoulliDistribution_log_prob(d, x, y)
      [] d.kind = "Gaussian" -> CondGaussianDistribution_log_prob(d, x, y)
      [] d.kind = "SpikeSlab" -> CondSpikeSlabDistribution_log_prob(d, x, y)
      [] d.kind = "MatrixProduct" -> CondMatrixProductDistribution_log_prob(d, x, y)

\* the evaluations of mn_f and std_f that Gaussian log_prob makes, after y.shape is read
CondGaussianDistribution_log_prob_calls(d, x, y) ==
    IF ~IsTensor(y) THEN <<>> ELSE <<Eval("mn_f", x), Eval("std_f", x)>>

\* the number of leading entries of s up to and including its first error
RECURSIVE UpToErr(_)
UpToErr(s) ==
    IF s = <<>> THEN 0 ELSE IF IsErr(Head(s)) THEN 1 ELSE 1 + UpToErr(Tail(s))

\* the log_prob calls on the columns that matrix-product log_prob makes, in column order
\* until one raises
CondMatrixProductDistribution_log_prob_calls(d, x, y) ==
    IF IsNone(y) THEN <<>>
    ELSE LET m == Min(Len(y.items), Len(d.dists))
             lls == [j \in 1..m |-> log_prob(d.dists[j], x, y.items[j])]
         IN  [j \in 1..UpToErr(lls) |-> CallX("dists", "log_prob", x, y.items[j])]

\* the calls that log_prob makes on the sub-function modules or the child distributions
\* of d, in order
log_prob_calls(d, x, y) ==
    CASE d.kind = "Bernoulli" -> CondBernoulliDistribution_log_prob_run(d, x, y).calls
      [] d.kind = "Gaussian" -> CondGaussianDistribution_log_prob_calls(d, x, y)
      [] d.kind = "SpikeSlab" -> CondSpikeSlabDistribution_log_prob_run(d, x, y).calls
      [] d.kind = "MatrixProduct" -> CondMatrixProductDistribution_log_prob_calls(d, x, y)

(* ------------------------------- forward ------------------------------ *)
\* a tensor of shape [Len(v)] of means, each a rational
M1(v) == [t |-> "tensor", rank |-> 1, dtype |-> "float", m1 |-> v]
\* a tensor of shape [Len(v), cols] of means, v the sequence of its rows
M2(cols, v) == [t |-> "tensor", rank |-> 2, dtype |-> "float", cols |-> cols, m2 |-> v]

RECURSIVE forward(_, _)

\* torch.exp(self.log_prob_fcn(x))
CondBernoulliDistribution_forward(d, x) ==
    LET l == log_prob_fcn(d, x) IN M1([i \in 1..Len(x) |-> l[i].p])

\* self.mn_f(x)
CondGaussianDistribution_forward(d, x) ==
    LET mn == mn_f(d, x)
    IN  M2(d.d_y, [i \in 1..Len(x) |-> [j \in 1..d.d_y |-> RatInt(mn[i][j])]])

\* spike-and-slab forward that returns the slab's mean, not weighted by the spike
CondSpikeSlabDistribution_forward_slab_mean(d, x) == forward(d.slab_d, x)

\* exp(spike_d.log_prob(x, ones(n_smps))).unsqueeze(1) * slab_d(x), for a slab whose
\* mean is a matrix
CondSpikeSlabDistribution_forward(d, x) ==
    LET n_smps == Len(x)
        spike_ll == log_prob(d.spike_d, x, T1("float", [i \in 1..n_smps |-> 1]))
        slab_mn == forward(d.slab_d, x)
    IN  IF IsErr(spike_ll) THEN spike_ll
        ELSE IF IsErr(slab_mn) THEN slab_mn
        ELSE IF ~Broadcasts(Rows(spike_ll), Len(slab_mn.m2)) THEN Err("RuntimeError")
        ELSE M2(slab_mn.cols,
                [i \in 1..BroadcastSize(Rows(spike_ll), Len(slab_mn.m2)) |->
                    [j \in 1..slab_mn.cols |->
                        RatMul(spike_ll.ll1[BIdx(Rows(spike_ll), i)].p,
                               slab_mn.m2[BIdx(Len(slab_mn.m2), i)][j])]])

\* the number of columns of the tensors parts[1], ..., parts[k] together
RECURSIVE TotalCols(_, _)
TotalCols(parts, k) == IF k = 0 THEN 0 ELSE TotalCols(parts, k - 1) + parts[k].cols

\* torch.cat(parts, dim=1) of tensors of means
TorchCatMeans(parts) ==
    IF parts = <<>> THEN Err("RuntimeError")
    ELSE IF \A j \in 1..Len(parts) : parts[j].rank = 1 THEN Err("IndexError")
    ELSE IF \E j \in 1..Len(parts) :
                parts[j].rank # 2 \/ Len(parts[j].m2) # Len(parts[1].m2)
         THEN Err("RuntimeError")
    ELSE M2(TotalCols(parts, Len(parts)),
            [i \in 1..Len(parts[1].m2) |->
                Flatten([j \in 1..Len(parts) |-> parts[j].m2[i]], Len(parts))])

\* torch.cat([d(x) for d in self.dists], dim=1)
CondMatrixProductDistribution_forward(d, x) ==
    LET parts == [j \in 1..Len(d.dists) |-> forward(d.dists[j], x)]
    IN  IF ~IsNone(FirstErr(parts)) THEN FirstErr(parts) ELSE TorchCatMeans(parts)

forward(d, x) ==
    CASE d.kind = "Bernoulli" -> CondBernoulliDistribution_forward(d, x)
      [] d.kind = "Gaussian" -> CondGaussianDistribution_forward(d, x)
      [] d.kind = "SpikeSlab" -> CondSpikeSlabDistribution_forward(d, x)
      [] d.kind = "MatrixProduct" -> CondMatrixProductDistribution_forward(d, x)

(* --------------------------------- kl --------------------------------- *)
\* a - b of two tensors of log-probabilities of rank 1
LLTensorSub(a, b) ==
    IF ~Broadcasts(Rows(a), Rows(b)) THEN Err("RuntimeError")
    ELSE L1([i \in 1..BroadcastSize(Rows(a), Rows(b)) |->
                LLSub(a.ll1[BIdx(Rows(a), i)], b.ll1[BIdx(Rows(b), i)])])

\* t.squeeze(): a tensor of one element becomes a tensor of rank 0
Squeeze(t) == IF IsErr(t) THEN t ELSE IF Rows(t) = 1 THEN L0(t.ll1[1]) ELSE t

\* a call made while an operation runs
Call(obj, method, y) == [obj |-> obj, method |-> method, y |-> y]

\* kl with the type check left out
kl_unchecked(self, d_2, x, smp) ==
    LET a == log_prob(self, x, smp)
        b == log_prob(d_2, x, smp)
        ca == Call("self", "log_prob", smp)
        cb == Call("d_2", "log_prob", smp)
    IN  IF IsErr(a) THEN [ret |-> a, calls |-> <<ca>>]
        ELSE IF IsErr(b) THEN [ret |-> b, calls |-> <<ca, cb>>]
        ELSE [ret |-> Squeeze(LLTensorSub(a, b)), calls |-> <<ca, cb>>]

\* kl with the two terms of the difference exchanged
kl_swapped(self, d_2, x, smp) ==
    IF TypeOf(d_2) # TypeOf(self) THEN [ret |-> Err("ValueError"), calls |-> <<>>]
    ELSE LET a == log_prob(self, x, smp)
             b == log_prob(d_2, x, smp)
             ca == Call("self", "log_prob", smp)
             cb == Call("d_2", "log_prob", smp)
         IN  IF IsErr(a) THEN [ret |-> a, calls |-> <<ca>>]
             ELSE IF IsErr(b) THEN [ret |-> b, calls |-> <<ca, cb>>]
             ELSE [ret |-> Squeeze(LLTensorSub(b, a)), calls |-> <<ca, cb>>]

\* CondVAEDistriubtion.kl, which every variant inherits: ret is the value returned or
\* the error raised, calls the log_prob and sample calls made on the way, in order
kl(self, d_2, x, smp) ==
    IF TypeOf(d_2) # TypeOf(self) THEN [ret |-> Err("ValueError"), calls |-> <<>>]
    ELSE LET a == log_prob(self, x, smp)
             b == log_prob(d_2, x, smp)
             ca == Call("self", "log_prob", smp)
             cb == Call("d_2", "log_prob", smp)
         IN  IF IsErr(a) THEN [ret |-> a, calls |-> <<ca>>]
             ELSE IF IsErr(b) THEN [ret |-> b, calls |-> <<ca, cb>>]
             ELSE [ret |-> Squeeze(LLTensorSub(a, b)), calls |-> <<ca, cb>>]

\* CondGaussianDistribution.other_kl: the closed form
\* .5*(log_det_diff - d + sigma_ratio_sum + mn_diff), squeezed
other_kl(self, d_2, x, smp) ==
    IF TypeOf(d_2) # TypeOf(self) THEN Err("ValueError")
    ELSE LET mn_1 == mn_f(self, x)
             std_1 == std_f(self, x)
             mn_2 == mn_f(d_2, x)
             std_2 == std_f(d_2, x)
             d == self.d_y
             W == BroadcastSize(self.d_y, d_2.d_y)
             det(std, w, i) == RatProd([j \in 1..w |-> RatInt(std[i][j])])
             sigma_ratio_sum(i) ==
                 RatSum([j \in 1..W |->
                     Rat(std_1[i][BIdx(self.d_y, j)] * std_1[i][BIdx(self.d_y, j)],
                         std_2[i][BIdx(d_2.d_y, j)] * std_2[i][BIdx(d_2.d_y, j)])])
             mn_diff(i) ==
                 RatSum([j \in 1..W |->
                     SqDev(mn_2[i][BIdx(d_2.d_y, j)], mn_1[i][BIdx(self.d_y, j)],
                           std_2[i][BIdx(d_2.d_y, j)])])
         IN  IF ~Broadcasts(self.d_y, d_2.d_y) THEN Err("RuntimeError")
             ELSE Squeeze(L1([i \in 1..Len(x) |->
                     LL(RatSub(RatInt(d), RatAdd(sigma_ratio_sum(i), mn_diff(i))),
                        RatDiv(det(std_2, d_2.d_y, i), det(std_1, self.d_y, i)),
                        0)]))

(* --------------------------- in-place writes -------------------------- *)
\* Where a tensor's memory comes from, as seen by the caller of an operation: "x" the
\* conditioning input, "smp" the sample passed in (a tensor an earlier call returned),
\* "parameters" a parameter of the distribution, "local" memory allocated while the
\* operation runs.  For every operation, _storage is the memory of the tensor it
\* returns and _writes the set of memories that the in-place statements on the path of
\* the call write to, given the memories x_mem and y_mem of its arguments (a statement
\* that raises while it is evaluated counts as reached).
RECURSIVE log_prob_storage(_, _, _)
RECURSIVE log_prob_writes(_, _, _, _, _)
RECURSIVE form_standard_sample_writes(_, _)

\* after the rank test: log_prob = torch.zeros(n_smps), assigned at [~zero_inds] and
\* [zero_inds], returned
CondBernoulliDistribution_log_prob_storage(d, x_mem, y_mem) == "local"
CondBernoulliDistribution_log_prob_writes(d, x, y, x_mem, y_mem) ==
    IF IsTensor(y) /\ y.rank = 1 THEN {"local"} ELSE {}

\* Gaussian log_prob that subtracts the mean from y in place
CondGaussianDistribution_log_prob_writes_y(d, x, y, x_mem, y_mem) ==
    IF IsTensor(y) THEN {y_mem, "local"} ELSE {}

\* after y.shape is read: ll = -.5*torch.sum(...), a new tensor, then ll -= ... twice,
\* returned
CondGaussianDistribution_log_prob_storage(d, x_mem, y_mem) == "local"
CondGaussianDistribution_log_prob_writes(d, x, y, x_mem, y_mem) ==
    IF IsTensor(y) THEN {"local"} ELSE {}

\* ll is the tensor the spike's log_prob returns; if any(support), ll[support] += ...
\* writes to it, after the slab is called on the copy x[support, :] and on nz_vls, a
\* part of y
CondSpikeSlabDistribution_log_prob_storage(d, x_mem, y_mem) ==
    log_prob_storage(d.spike_d, x_mem, y_mem)
CondSpikeSlabDistribution_log_prob_writes(d, x, y, x_mem, y_mem) ==
    IF IsNone(y) \/ (IsTensor(y) /\ Rows(y) # 3) THEN {}
    ELSE LET support == IF IsTensor(y) THEN Item(y, 2) ELSE y.support
             nz_vls == IF IsTensor(y) THEN Item(y, 3) ELSE y.nz_vls
             spike_writes == log_prob_writes(d.spike_d, x, support, x_mem, y_mem)
         IN  IF ~(IsT1(support) /\ Rows(support) = Len(x)) THEN spike_writes
             ELSE IF ~AnyOf(support) THEN spike_writes
             ELSE spike_writes
                     \cup log_prob_writes(d.slab_d, MaskSelect(x, support.v1), nz_vls,
                                          "local", y_mem)
                     \cup {log_prob_storage(d.spike_d, x_mem, y_mem)}

\* torch.sum(entry_ll, dim=1), a new tensor; the writes are those of the columns
CondMatrixProductDistribution_log_prob_storage(d, x_mem, y_mem) == "local"
CondMatrixProductDistribution_log_prob_writes(d, x, y, x_mem, y_mem) ==
    IF IsNone(y) THEN {}
    ELSE UNION {log_prob_writes(d.dists[j], x, y.items[j], x_mem, y_mem) :
                    j \in 1..Min(Len(y.items), Len(d.dists))}

log_prob_storage(d, x_mem, y_mem) ==
    CASE d.kind = "Bernoulli" -> CondBernoulliDistribution_log_prob_storage(d, x_mem, y_mem)
      [] d.kind = "Gaussian" -> CondGaussianDistribution_log_prob_storage(d, x_mem, y_mem)
      [] d.kind = "SpikeSlab" -> CondSpikeSlabDistribution_log_prob_storage(d, x_mem, y_mem)
      [] d.kind = "MatrixProduct" ->
            CondMatrixProductDistribution_log_prob_storage(d, x_mem, y_mem)

log_prob_writes(d, x, y, x_mem, y_mem) ==
    CASE d.kind = "Bernoulli" -> CondBernoulliDistribution_log_prob_writes(d, x, y, x_mem, y_mem)
      [] d.kind = "Gaussian" -> CondGaussianDistribution_log_prob_writes(d, x, y, x_mem, y_mem)
      [] d.kind = "SpikeSlab" -> CondSpikeSlabDistribution_log_prob_writes(d, x, y, x_mem, y_mem)
      [] d.kind = "MatrixProduct" ->
            CondMatrixProductDistribution_log_prob_writes(d, x, y, x_mem, y_mem)

\* kl, after the type test: the writes of self.log_prob and of d_2.log_prob; the
\* difference and its squeeze are new tensors
kl_writes(self, d_2, x, smp, x_mem, y_mem) ==
    IF TypeOf(d_2) # TypeOf(self) THEN {}
    ELSE log_prob_writes(self, x, smp, x_mem, y_mem)
            \cup log_prob_writes(d_2, x, smp, x_mem, y_mem)

\* form_standard_sample: the spike-and-slab distribution, unless nz_vls is None, writes
\* nz_vls into formed_smp = torch.zeros(...); the Bernoulli and Gaussian distributions
\* return smp itself; the matrix product calls its columns
form_standard_sample_writes(d, smp) ==
    CASE d.kind \in {"Bernoulli", "Gaussian"} -> {}
      [] d.kind = "SpikeSlab" ->
            IF IsList3(smp) /\ ~IsNone(smp.nz_vls) THEN {"local"} ELSE {}
      [] d.kind = "MatrixProduct" ->
            IF IsNone(smp) THEN {}
            ELSE UNION {form_standard_sample_writes(d.dists[j], smp.items[j]) :
                            j \in 1..Min(Len(smp.items), Len(d.dists))}

\* form_compact_sample has no in-place statement (smp[support, :] and smp != 0 are new
\* tensors); the matrix product calls form_standard_sample of its columns on the
\* columns of smp
form_compact_sample_writes(d, smp) ==
    IF d.kind = "MatrixProduct" /\ IsTensor(smp) /\ smp.rank = 2
    THEN UNION {form_standard_sample_writes(d.dists[j],
                    T2(smp.dtype, 1, [i \in 1..Rows(smp) |-> <<smp.v2[i][j]>>])) :
                        j \in 1..Min(smp.cols, Len(d.dists))}
    ELSE {}

\* forward: the spike-and-slab distribution calls the spike's log_prob on torch.ones,
\* a tensor of its own; nothing else is written in place
RECURSIVE forward_writes(_, _)
forward_writes(d, x) ==
    CASE d.kind \in {"Bernoulli", "Gaussian"} -> {}
      [] d.kind = "SpikeSlab" ->
            log_prob_writes(d.spike_d, x, T1("float", [i \in 1..Len(x) |-> 1]), "x", "local")
                \cup forward_writes(d.slab_d, x)
      [] d.kind = "MatrixProduct" ->
            UNION {forward_writes(d.dists[j], x) : j \in 1..Len(d.dists)}

(* ------------------------- storage of results ------------------------- *)
\* The memories that the tensors of a returned value lie in, given the memory smp_mem
\* of the sample passed in: an operation that returns its argument, or a view of it,
\* returns smp_mem; one that computes its result returns "local".

\* form_standard_sample that returns a copy of the sample
form_standard_sample_storage_clone(d, smp_mem) == {"local"}

\* form_standard_sample: the Bernoulli and Gaussian distributions return smp itself;
\* the spike-and-slab distribution returns torch.zeros(...), the matrix product the
\* result of torch.cat
form_standard_sample_storage(d, smp_mem) ==
    CASE d.kind \in {"Bernoulli", "Gaussian"} -> {smp_mem}
      [] d.kind = "SpikeSlab" -> {"local"}
      [] d.kind = "MatrixProduct" -> {"local"}

\* form_compact_sample: the Bernoulli and Gaussian distributions return smp itself; the
\* spike-and-slab distribution returns the mask it computes and the copy
\* smp[support, :]; the matrix product returns what form_standard_sample of its columns
\* returns for the views smp[:, c_i].view([n_rows, 1]) of smp
form_compact_sample_storage(d, smp, smp_mem) ==
    CASE d.kind \in {"Bernoulli", "Gaussian"} -> {smp_mem}
      [] d.kind = "SpikeSlab" -> {"local"}
      [] d.kind = "MatrixProduct" ->
            UNION {form_standard_sample_storage(d.dists[j], smp_mem) :
                        j \in 1..Min(smp.cols, Len(d.dists))}

\* sample: bern_dist.sample().byte() and mn + z*std are new tensors; the support of the
\* spike-and-slab sample is form_standard_sample of the spike's sample and nz_vls the
\* slab's sample; the matrix product lists the samples of its columns
RECURSIVE sample_storage(_)
sample_storage(d) ==
    CASE d.kind \in {"Bernoulli", "Gaussian"} -> {"local"}
      [] d.kind = "SpikeSlab" ->
            UNION {form_standard_sample_storage(d.spike_d, m) : m \in sample_storage(d.spike_d)}
                \cup sample_storage(d.slab_d)
      [] d.kind = "MatrixProduct" ->
            UNION {sample_storage(d.dists[j]) : j \in 1..Len(d.dists)}

\* forward: torch.exp(...), the output that mn_f computes, the product spike_p*slab_mn
\* and the result of torch.cat are new tensors
forward_storage(d) == {"local"}

\* kl and other_kl: the difference of the two log_prob results, the closed form and
\* their squeeze are new tensors
kl_storage(self, d_2) == {"local"}

\* r_params and s_params: the lists hold the parameter tensors of the distribution
params_storage(params) == IF params = <<>> THEN {} ELSE {"parameters"}

(* ---------------------------- state machine --------------------------- *)
VARIABLES
    dist,    \* the distribution the operations are called on (self)
    x,       \* the conditioning batch
    smp,     \* the compact sample last returned by sample(x), None before the first
    std,     \* form_standard_sample(smp), None until it is formed
    cmp,     \* form_compact_sample(std), None until it is formed
    std2,    \* form_standard_sample(cmp), None until it is formed
    op,      \* the operation called last
    other,   \* the distribution d_2 of the last kl or other_kl call, None otherwise
    arg,     \* the sample argument of the last call, None if it has none
    ret,     \* what the last call returned, an error if it raised
    calls,   \* the calls the last sample, log_prob or kl call made on sub-function
             \* modules and distributions, in order
    written, \* the memories of the targets of the in-place statements of the last call
    shares   \* the memories that the tensors of the value the last call returned lie in

vars == <<dist, x, smp, std, cmp, std2, op, other, arg, ret, calls, written, shares>>

\* sample(x) of an object that registers other sub-function modules while it samples
Sample_registering ==
    /\ op = "init" /\ dist \in Dists
    /\ \E r \in sample_run(dist, x) :
        /\ smp' = r.ret
        /\ calls' = r.calls
    /\ dist' = Reparam(dist)
    /\ std' = None /\ cmp' = None /\ std2' = None
    /\ op' = "sample" /\ other' = None /\ arg' = None /\ ret' = smp'
    /\ written' = {}
    /\ shares' = sample_storage(dist)
    /\ UNCHANGED x

\* samples a caller can pass to log_prob besides the one sample returned: constant
\* tensors with 1..MaxN rows of rank 1 and 2 for a Gaussian distribution, constant
\* tensors of rank 0, 2 and 3 for a Bernoulli distribution
TestYs(d) ==
    IF d.kind = "Gaussian"
    THEN {T2("float", d.d_y, [i \in 1..m |-> [j \in 1..d.d_y |-> v]]) : m \in 1..MaxN, v \in {0, 1, 2}}
         \cup {T1("float", [i \in 1..m |-> v]) : m \in 1..MaxN, v \in {0, 1, 2}}
    ELSE IF d.kind = "Bernoulli"
    THEN {T0("uint8", v) : v \in {0, 1}}
         \cup {T2("uint8", 1, [i \in 1..m |-> <<v>>]) : m \in 1..MaxN, v \in {0, 1}}
         \cup {T3("uint8", [i \in 1..m |-> <<<<v>>>>]) : m \in 1..MaxN, v \in {0, 1}}
    ELSE {}

Init ==
    /\ dist \in Dists \cup MixedSpikeSlabs
    /\ x \in Batches
    /\ smp = None /\ std = None /\ cmp = None /\ std2 = None
    /\ op = "init" /\ other = None /\ arg = None /\ ret = None /\ calls = <<>>
    /\ written = {}
    /\ shares = {}

\* a caller constructs the distribution, may draw one sample, and then either
\* converts it (standard, compact, standard again) or makes one log_prob or kl call;
\* on a distribution of MixedSpikeSlabs a caller calls r_params and s_params only
Fresh == op \in {"init", "sample"}

\* smp = dist.sample(x)
Sample ==
    /\ op = "init" /\ dist \in Dists
    /\ \E r \in sample_run(dist, x) :
        /\ smp' = r.ret
        /\ calls' = r.calls
    /\ std' = None /\ cmp' = None /\ std2' = None
    /\ op' = "sample" /\ other' = None /\ arg' = None /\ ret' = smp'
    /\ written' = {}
    /\ shares' = sample_storage(dist)
    /\ UNCHANGED <<dist, x>>

\* std = dist.form_standard_sample(smp)
FormStandard ==
    /\ op = "sample"
    /\ std' = form_standard_sample(dist, smp)
    /\ cmp' = None /\ std2' = None
    /\ op' = "form_standard_sample" /\ other' = None /\ arg' = smp /\ ret' = std'
    /\ calls' = <<>>
    /\ written' = form_standard_sample_writes(dist, smp)
    /\ shares' = IF IsErr(std') THEN {} ELSE form_standard_sample_storage(dist, "smp")
    /\ UNCHANGED <<dist, x, smp>>

\* cmp = dist.form_compact_sample(std)
FormCompact ==
    /\ op = "form_standard_sample" /\ IsNone(cmp) /\ ~IsErr(std)
    /\ cmp' = form_compact_sample(dist, std)
    /\ std2' = None
    /\ op' = "form_compact_sample" /\ other' = None /\ arg' = std /\ ret' = cmp'
    /\ calls' = <<>>
    /\ written' = form_compact_sample_writes(dist, std)
    /\ shares' = IF IsErr(cmp') THEN {} ELSE form_compact_sample_storage(dist, std, "smp")
    /\ UNCHANGED <<dist, x, smp, std>>

\* std2 = dist.form_standard_sample(cmp)
ReformStandard ==
    /\ op = "form_compact_sample" /\ ~IsErr(cmp)
    /\ std2' = form_standard_sample(dist, cmp)
    /\ op' = "form_standard_sample" /\ other' = None /\ arg' = cmp /\ ret' = std2'
    /\ calls' = <<>>
    /\ written' = form_standard_sample_writes(dist, cmp)
    /\ shares' = IF IsErr(std2') THEN {} ELSE form_standard_sample_storage(dist, "smp")
    /\ UNCHANGED <<dist, x, smp, std, cmp>>

\* dist.log_prob(x, y): y is the sample drawn, or before any is drawn None or a test tensor
LogProb ==
    /\ Fresh /\ dist \in Dists
    /\ \E y \in IF op = "init" THEN {None} \cup TestYs(dist) ELSE {smp} :
        /\ arg' = y
        /\ ret' = log_prob(dist, x, y)
        /\ calls' = log_prob_calls(dist, x, y)
        /\ written' = log_prob_writes(dist, x, y, "x", "smp")
        /\ shares' = IF IsErr(ret') THEN {} ELSE {log_prob_storage(dist, "x", "smp")}
    /\ std' = None /\ cmp' = None /\ std2' = None
    /\ op' = "log_prob" /\ other' = None
    /\ UNCHANGED <<dist, x, smp>>

\* dist.kl(d_2, x, smp) with the sample drawn, dist.kl(d_2, x) before any is drawn
KL ==
    /\ Fresh /\ dist \in Dists
    /\ \E d_2 \in Partners(dist) :
        LET r == kl(dist, d_2, x, smp)
        IN  /\ other' = d_2
            /\ arg' = smp
            /\ ret' = r.ret
            /\ calls' = r.calls
            /\ written' = kl_writes(dist, d_2, x, smp, "x", "smp")
            /\ shares' = IF IsErr(ret') THEN {} ELSE kl_storage(dist, d_2)
    /\ std' = None /\ cmp' = None /\ std2' = None
    /\ op' = "kl"
    /\ UNCHANGED <<dist, x, smp>>

\* dist.other_kl(d_2, x) of a Gaussian distribution
OtherKL ==
    /\ op = "init"
    /\ dist.kind = "Gaussian"
    /\ \E d_2 \in Partners(dist) :
        /\ other' = d_2
        /\ arg' = smp
        /\ ret' = other_kl(dist, d_2, x, smp)
        /\ shares' = IF IsErr(ret') THEN {} ELSE kl_storage(dist, d_2)
    /\ std' = None /\ cmp' = None /\ std2' = None
    /\ op' = "other_kl" /\ calls' = <<>> /\ written' = {}
    /\ UNCHANGED <<dist, x, smp>>

\* dist.forward(x) of a distribution just constructed
Forward ==
    /\ op = "init" /\ dist \in Dists
    /\ ret' = forward(dist, x)
    /\ std' = None /\ cmp' = None /\ std2' = None
    /\ op' = "forward" /\ other' = None /\ arg' = None /\ calls' = <<>>
    /\ written' = forward_writes(dist, x)
    /\ shares' = IF IsErr(ret') THEN {} ELSE forward_storage(dist)
    /\ UNCHANGED <<dist, x, smp>>

\* dist.r_params(), at any point of the caller's sequence
RParams ==
    /\ op \notin {"r_params", "s_params"}
    /\ ret' = ParamList(r_params(dist))
    /\ std' = None /\ cmp' = None /\ std2' = None
    /\ op' = "r_params" /\ other' = None /\ arg' = None /\ calls' = <<>>
    /\ written' = {}
    /\ shares' = params_storage(r_params(dist))
    /\ UNCHANGED <<dist, x, smp>>

\* dist.s_params(), at any point of the caller's sequence
SParams ==
    /\ op \notin {"r_params", "s_params"}
    /\ ret' = ParamList(s_params(dist))
    /\ std' = None /\ cmp' = None /\ std2' = None
    /\ op' = "s_params" /\ other' = None /\ arg' = None /\ calls' = <<>>
    /\ written' = {}
    /\ shares' = params_storage(s_params(dist))
    /\ UNCHANGED <<dist, x, smp>>

Next ==
    \/ Sample
    \/ FormStandard
    \/ FormCompact
    \/ ReformStandard
    \/ LogProb
    \/ KL
    \/ OtherKL
    \/ Forward
    \/ RParams
    \/ SParams

Spec == Init /\ [][Next]_vars

(* ------------------------------- claims ------------------------------- *)
\* row i of the value a kl call returned (a tensor of one row is squeezed to rank 0)
RetRow(r, i) == IF r.rank = 0 THEN r.ll0 ELSE r.ll1[i]
\* the number of rows a returned tensor of log-probabilities stands for
RetRows(r) == IF r.rank = 0 THEN 1 ELSE Len(r.ll1)
\* the rows a support tensor of shape [n] or [n, 1] marks active
ActiveRows(support) ==
    IF support.rank = 1 THEN {i \in 1..Rows(support) : support.v1[i] # 0}
    ELSE {i \in 1..Rows(support) : support.v2[i][1] # 0}

\* C1: kl with a distribution d_2 of another concrete variant raises, whatever x and
\* whether a sample is supplied or omitted, before any log_prob or sample call is made
C1_KLTypeMismatchRaises ==
    (op = "kl" /\ TypeOf(other) # TypeOf(dist)) => (IsErr(ret) /\ calls = <<>>)

\* C1 witness: kl was called with a supplied sample on a distribution of another variant
C1_Witness ==
    op = "kl" /\ TypeOf(other) # TypeOf(dist) /\ ~IsNone(arg) /\ IsErr(ret)

\* C2: D.kl(D, x) with no sample returns 0 for every row of x
C2_SelfKLIsZero ==
    (op = "kl" /\ other = dist /\ IsNone(arg)) =>
        (~IsErr(ret) /\ RetRows(ret) = Len(x)
            /\ \A i \in 1..Len(x) : RetRow(ret, i) = LLZero)

\* C3: kl with the sample omitted does not fail: it draws a sample y of self given x
\* and returns log P_self(y|x) - log P_other(y|x) for each row
C3_KLDrawsOwnSample ==
    (op = "kl" /\ TypeOf(other) = TypeOf(dist) /\ IsNone(arg)) =>
        (~IsErr(ret)
            /\ \E y \in sample(dist, x) :
                /\ ~IsErr(log_prob(dist, x, y)) /\ ~IsErr(log_prob(other, x, y))
                /\ ret = Squeeze(LLTensorSub(log_prob(dist, x, y), log_prob(other, x, y))))

\* C4: kl with a supplied sample makes exactly the two log_prob calls, self's then
\* d_2's, both at the supplied sample, draws no sample, and returns for each row
\* log P_self(smp|x) - log P_other(smp|x); it raises only if one of the two calls raises
C4_KLUsesSuppliedSample ==
    (op = "kl" /\ TypeOf(other) = TypeOf(dist) /\ ~IsNone(arg)) =>
        LET a == log_prob(dist, x, arg)
            b == log_prob(other, x, arg)
        IN  /\ \A c \in 1..Len(calls) : calls[c].method = "log_prob" /\ calls[c].y = arg
            /\ IF IsErr(a) \/ IsErr(b) THEN IsErr(ret)
               ELSE /\ ~IsErr(ret)
                    /\ [c \in 1..Len(calls) |-> calls[c].obj] = <<"self", "d_2">>
                    /\ RetRows(ret) = Len(x)
                    /\ \A i \in 1..Len(x) : RetRow(ret, i) = LLSub(a.ll1[i], b.ll1[i])

\* C4 witness: kl returned a value for a supplied sample and another distribution of
\* the same variant
C4_Witness ==
    op = "kl" /\ TypeOf(other) = TypeOf(dist) /\ other # dist /\ ~IsNone(arg) /\ ~IsErr(ret)

\* C5: kl of a Gaussian distribution with another Gaussian, called with a sample,
\* returns the closed-form diagonal-Gaussian KL of the two means and scales at x
C5_GaussianKLIsClosedForm ==
    (op = "kl" /\ dist.kind = "Gaussian" /\ other.kind = "Gaussian" /\ ~IsNone(arg)) =>
        ret = other_kl(dist, other, x, arg)

\* the slab values of a spike-and-slab compact sample are all different from 0
NonzeroValues(c) ==
    IsNone(c.nz_vls) \/
        \A i \in 1..Rows(c.nz_vls) : \A j \in 1..c.nz_vls.cols : c.nz_vls.v2[i][j] # 0

\* C6: for a spike-and-slab distribution over any d >= 1, with s the standard form of a
\* sample (whose slab values are nonzero), form_compact_sample(s) succeeds and
\* form_standard_sample of it equals s
C6_SpikeSlabStandardRoundTrip ==
    (dist.kind = "SpikeSlab" /\ ~IsNone(smp) /\ NonzeroValues(smp)) =>
        /\ ~IsErr(cmp)
        /\ (~IsNone(std2) => std2 = std)

\* C7: for a spike-and-slab distribution and a compact sample c returned by sample
\* (whose slab values are nonzero), form_compact_sample(form_standard_sample(c)) has
\* the n_samples, the active rows and the nonzero values of c
C7_SpikeSlabCompactRoundTrip ==
    (dist.kind = "SpikeSlab" /\ ~IsNone(cmp) /\ NonzeroValues(smp)) =>
        /\ ~IsErr(cmp)
        /\ cmp.n_smps = smp.n_smps
        /\ ActiveRows(cmp.support) = ActiveRows(smp.support)
        /\ cmp.nz_vls = smp.nz_vls

\* C8: for a matrix-product distribution of any mix of columns, when the standard form
\* s of a sample is formed, form_compact_sample(s) and form_standard_sample of its
\* result succeed and the latter equals s
C8_MatrixProductRoundTrip ==
    (dist.kind = "MatrixProduct" /\ ~IsNone(std) /\ ~IsErr(std)) =>
        /\ ~IsErr(cmp)
        /\ ~IsErr(std2)
        /\ (~IsNone(std2) => std2 = std)

\* C9: log_prob(x, sample(x)) returns, for every variant, a tensor of exactly one
\* log-probability per row of x and raises nothing
C9_LogProbAcceptsSample ==
    (op = "log_prob" /\ ~IsNone(smp)) => (IsL1(ret) /\ Rows(ret) = Len(x))

\* C9 witness: log_prob accepted the sample of a matrix product of several columns with
\* a spike-and-slab column that has no active row
C9_Witness ==
    /\ op = "log_prob" /\ dist.kind = "MatrixProduct" /\ Len(dist.dists) > 1
    /\ ~IsNone(smp)
    /\ \E j \in 1..Len(dist.dists) :
        dist.dists[j].kind = "SpikeSlab" /\ IsNone(smp.items[j].nz_vls)
    /\ IsL1(ret)

\* C10: Gaussian log_prob(x, y) raises whenever y (a rank-1 y taken as one column) has
\* a number of rows different from that of x
C10_GaussianRowMismatchRaises ==
    (op = "log_prob" /\ dist.kind = "Gaussian" /\ IsTensor(arg) /\ Rows(arg) # Len(x)) =>
        IsErr(ret)

\* C11: Bernoulli log_prob(x, y) raises for every tensor y whose rank is not 1 (rank 0,
\* 2 or 3), and it raises before log_prob_fcn is evaluated on x
C11_BernoulliRankCheckFirst ==
    (op = "log_prob" /\ dist.kind = "Bernoulli" /\ IsTensor(arg) /\ arg.rank # 1) =>
        (IsErr(ret) /\ calls = <<>>)

\* C11 witness: Bernoulli log_prob was called with a tensor of rank 2 that has one entry
\* per row of x, and raised
C11_Witness ==
    /\ op = "log_prob" /\ dist.kind = "Bernoulli" /\ IsTensor(arg) /\ arg.rank = 2
    /\ Rows(arg) = Len(x) /\ IsErr(ret)

\* the one-row batch holding row i of x
XRow(i) == <<x[i]>>
\* the log-probability the distribution d gives the single sample y conditioned on row i
RowLogProb(d, i, y) == log_prob(d, XRow(i), y).ll1[1]
\* the position among the active rows of the active row i of a support mask
ActiveIndex(support, i) == Cardinality({h \in ActiveRows(support) : h <= i})

\* C12: spike-and-slab log_prob of a compact sample with k of n rows active gives an
\* inactive row the spike's log-probability of support 0 at that row of x, and the j-th
\* active row the spike's log-probability of support 1 plus the slab's log-probability
\* of the j-th packed value conditioned on that row of x; the slab is called only when
\* k > 0, once, on the k active rows of x
C12_SpikeSlabAdditive ==
    (op = "log_prob" /\ dist.kind = "SpikeSlab" /\ ~IsNone(arg)) =>
        LET active == ActiveRows(arg.support)
            slab_calls == SelectSeq(calls, LAMBDA c : c.obj = "slab_d")
        IN  /\ IsL1(ret) /\ Rows(ret) = Len(x)
            /\ \A i \in 1..Len(x) :
                    ret.ll1[i] =
                        IF i \in active
                        THEN LLAdd(RowLogProb(dist.spike_d, i, T1("uint8", <<1>>)),
                                   RowLogProb(dist.slab_d, i,
                                       T2("float", dist.d,
                                          <<arg.nz_vls.v2[ActiveIndex(arg.support, i)]>>)))
                        ELSE RowLogProb(dist.spike_d, i, T1("uint8", <<0>>))
            /\ IF active = {} THEN slab_calls = <<>>
               ELSE /\ Len(slab_calls) = 1
                    /\ Len(slab_calls[1].x) = Cardinality(active)
                    /\ \A i \in active : slab_calls[1].x[ActiveIndex(arg.support, i)] = x[i]

\* C12 witness: spike-and-slab log_prob returned for a sample in which an inactive row
\* precedes an active one
C12_Witness ==
    /\ op = "log_prob" /\ dist.kind = "SpikeSlab" /\ ~IsNone(arg) /\ IsL1(ret)
    /\ \E i \in ActiveRows(arg.support) : \E h \in 1..(i - 1) : h \notin ActiveRows(arg.support)

\* the sum of the log-probabilities s[1], ..., s[k]
RECURSIVE LLTotal(_, _)
LLTotal(s, k) == IF k = 0 THEN LLZero ELSE LLAdd(LLTotal(s, k - 1), s[k])

\* C13: matrix-product log_prob of a sample [y_1..y_M] for columns D_1..D_M of any
\* variants returns, for every row i of x, the sum over j of D_j.log_prob(x, y_j)[i]
C13_MatrixProductAdditive ==
    (op = "log_prob" /\ dist.kind = "MatrixProduct" /\ ~IsNone(arg)) =>
        LET M == Len(dist.dists)
            col == [j \in 1..M |-> log_prob(dist.dists[j], x, arg.items[j])]
        IN  /\ Len(arg.items) = M
            /\ IsL1(ret) /\ Rows(ret) = Len(x)
            /\ \A i \in 1..Len(x) :
                    ret.ll1[i] = LLTotal([j \in 1..M |-> col[j].ll1[i]], M)

\* C13 witness: log_prob returned for a matrix product of a Gaussian and a Bernoulli
\* column on a batch of several rows
C13_Witness ==
    /\ op = "log_prob" /\ dist.kind = "MatrixProduct" /\ ~IsNone(arg) /\ IsL1(ret)
    /\ Len(x) > 1
    /\ [j \in 1..Len(dist.dists) |-> dist.dists[j].kind] = <<"Gaussian", "Bernoulli">>

\* the set of entries of a sequence
Range(s) == {s[i] : i \in 1..Len(s)}
\* the child distributions of a composite distribution
Children(d) ==
    IF d.kind = "MatrixProduct" THEN Range(d.dists)
    ELSE IF d.kind = "SpikeSlab" THEN {d.spike_d, d.slab_d}
    ELSE {}

\* C14: for a matrix-product distribution r_params returns exactly the union of the
\* children's r_params, and s_params exactly the union of the children's s_params
C14_MatrixProductPartitionIsUnion ==
    /\ (op = "r_params" /\ dist.kind = "MatrixProduct") =>
            Range(ret.params) = UNION {Range(r_params(c)) : c \in Children(dist)}
    /\ (op = "s_params" /\ dist.kind = "MatrixProduct") =>
            Range(ret.params) = UNION {Range(s_params(c)) : c \in Children(dist)}

\* the parameter lists of the sub-function modules of d, joined with repetitions
RECURSIVE ModuleParameters(_)
ModuleParameters(d) ==
    CASE d.kind = "Bernoulli" -> d.log_prob_fcn.parameters
      [] d.kind = "Gaussian" -> d.mn_f_parameters \o d.std_f_parameters
      [] d.kind = "SpikeSlab" -> ModuleParameters(d.spike_d) \o ModuleParameters(d.slab_d)
      [] d.kind = "MatrixProduct" ->
            Flatten([j \in 1..Len(d.dists) |-> ModuleParameters(d.dists[j])], Len(d.dists))
\* no parameter of d belongs to two of its sub-function modules
Unshared(d) == Len(ModuleParameters(d)) = Cardinality(Range(ModuleParameters(d)))

C16_OnlyLocalWrites ==
    /\ [](written \subseteq {"local"})
    /\ [][x' = x /\ dist' = dist /\ (~IsNone(smp) => smp' = smp)]_vars

\* C16 witness: spike-and-slab log_prob added the slab's log-probabilities in place to
\* the rows of an active support
C16_Witness ==
    /\ op = "log_prob" /\ dist.kind = "SpikeSlab" /\ ~IsNone(arg) /\ IsL1(ret)
    /\ ActiveRows(arg.support) # {}
    /\ written = {"local"}

\* C17: every r_params call returns the list the distribution had before the step, every
\* s_params call likewise, and no call of any operation changes the two lists; so they
\* are the lists of the time of construction
C17_PartitionFixed ==
    [][/\ r_params(dist') = r_params(dist)
       /\ s_params(dist') = s_params(dist)
       /\ op' = "r_params" => ret' = ParamList(r_params(dist))
       /\ op' = "s_params" => ret' = ParamList(s_params(dist))]_vars

\* C17 witness: r_params returned a nonempty list after a sample was drawn
C17_Witness ==
    op = "r_params" /\ ~IsNone(smp) /\ ret.params # <<>>

\* column c_i of a matrix, as a tensor of shape [n, 1]
ColumnOf(m, c_i) == T2(m.dtype, 1, [i \in 1..Rows(m) |-> <<m.v2[i][c_i]>>])

\* C18: matrix-product form_compact_sample of a dense matrix returns, for every column
\* j, what column j's own form_compact_sample returns for column j of the matrix
C18_MatrixProductCompactDelegates ==
    (op = "form_compact_sample" /\ dist.kind = "MatrixProduct") =>
        LET want == [j \in 1..Len(dist.dists) |->
                        form_compact_sample(dist.dists[j], ColumnOf(arg, j))]
        IN  IF ~IsNone(FirstErr(want)) THEN IsErr(ret) ELSE ret = ListOf(want)

\* the conditional mean of a column distribution as a matrix: a vector of length n is
\* taken as one column
MeanColumns(m) ==
    IF m.rank = 1 THEN [i \in 1..Len(m.m1) |-> <<m.m1[i]>>] ELSE m.m2

\* C19: matrix-product forward(x) returns, for any mix of column variants, a matrix with
\* one row per row of x, holding the conditional means of the columns in column order
C19_MatrixProductForwardConcatenates ==
    (op = "forward" /\ dist.kind = "MatrixProduct") =>
        LET M == Len(dist.dists)
            mns == [j \in 1..M |-> MeanColumns(forward(dist.dists[j], x))]
        IN  /\ ~IsErr(ret)
            /\ ret.rank = 2 /\ Len(ret.m2) = Len(x)
            /\ \A i \in 1..Len(x) : ret.m2[i] = Flatten([j \in 1..M |-> mns[j][i]], M)

\* C20: a compact sample [n_smps, support, nz_vls] returned by spike-and-slab sample(x)
\* has n_smps the number of rows of x and a support of that length; nz_vls is None
\* exactly when no row is active, and otherwise has one row per active row, the j-th a
\* value the slab can draw conditioned on the x row of the j-th active entry; the slab is
\* sampled once on the active rows of x if there is one, and not at all otherwise
C20_SpikeSlabSampleShape ==
    (op = "sample" /\ dist.kind = "SpikeSlab") =>
        LET active == ActiveRows(ret.support)
            slab_calls == SelectSeq(calls, LAMBDA c : c.obj = "slab_d")
        IN  /\ ret.n_smps = Len(x)
            /\ IsT1(ret.support) /\ Rows(ret.support) = ret.n_smps
            /\ IsNone(ret.nz_vls) <=> active = {}
            /\ active # {} =>
                /\ IsT2(ret.nz_vls) /\ Rows(ret.nz_vls) = Cardinality(active)
                /\ \A i \in active :
                        T2("float", dist.d, <<ret.nz_vls.v2[ActiveIndex(ret.support, i)]>>)
                            \in sample(dist.slab_d, XRow(i))
                /\ Len(slab_calls) = 1
                /\ slab_calls[1].x = [j \in 1..Cardinality(active) |->
                        x[CHOOSE i \in active : ActiveIndex(ret.support, i) = j]]
            /\ active = {} => slab_calls = <<>>

\* C20 witness: spike-and-slab sample returned a sample in which an inactive row precedes
\* an active one
C20_Witness ==
    /\ op = "sample" /\ dist.kind = "SpikeSlab"
    /\ \E i \in ActiveRows(ret.support) : \E h \in 1..(i - 1) : h \notin ActiveRows(ret.support)

\* C21: a spike-and-slab compact sample with no active row is no error:
\* form_standard_sample of it returns the all-zero tensor of shape [n_smps, d], and
\* log_prob of it returns for every row the spike's log-probability of support 0 at
\* that row of x, with no call on the slab
C21_NoActiveRowIsNoError ==
    (dist.kind = "SpikeSlab" /\ IsList3(arg) /\ ActiveRows(arg.support) = {}) =>
        /\ op = "form_standard_sample" =>
                ret = T2("float", dist.d, [i \in 1..arg.n_smps |-> [j \in 1..dist.d |-> 0]])
        /\ op = "log_prob" =>
                /\ ret = L1([i \in 1..Len(x) |->
                                RowLogProb(dist.spike_d, i, T1("uint8", <<0>>))])
                /\ SelectSeq(calls, LAMBDA c : c.obj = "slab_d") = <<>>

\* C21 witness: log_prob returned for a sample of several rows, none active, of a
\* spike-and-slab distribution whose spike depends on x
C21_Witness ==
    /\ op = "log_prob" /\ dist.kind = "SpikeSlab" /\ IsList3(arg)
    /\ ActiveRows(arg.support) = {} /\ Len(x) > 1
    /\ dist.spike_d.log_prob_fcn = QuarterThenMore
    /\ IsL1(ret)

\* the rows of a dense matrix whose entries are all different from 0
FullRows(m) == {i \in 1..Rows(m) : \A j \in 1..m.cols : m.v2[i][j] # 0}
\* the k-th smallest member of a set of row numbers
KthOf(S, k) == CHOOSE i \in S : Cardinality({h \in S : h <= i}) = k

\* C22: spike-and-slab form_compact_sample of a dense [n, d] tensor returns n_smps = n,
\* a support that marks row i exactly when all d entries of row i are nonzero, and as
\* nz_vls the marked rows in their order, None when no row is marked
C22_SpikeSlabCompactMarksFullRows ==
    (op = "form_compact_sample" /\ dist.kind = "SpikeSlab" /\ IsT2(arg) /\ arg.cols = dist.d) =>
        LET active == FullRows(arg)
        IN  /\ ~IsErr(ret)
            /\ ret.n_smps = Rows(arg)
            /\ Rows(ret.support) = Rows(arg)
            /\ ActiveRows(ret.support) = active
            /\ IF active = {} THEN IsNone(ret.nz_vls)
               ELSE /\ IsT2(ret.nz_vls)
                    /\ ret.nz_vls.v2 = [k \in 1..Cardinality(active) |-> arg.v2[KthOf(active, k)]]

\* C23: spike-and-slab forward(x) returns a matrix of the shape [n, d] of the slab's
\* mean whose row i is the slab's conditional mean at x[i], every entry multiplied by
\* the spike's probability of support 1 at x[i]
C23_SpikeSlabForwardWeightsMean ==
    (op = "forward" /\ dist.kind = "SpikeSlab") =>
        /\ ~IsErr(ret)
        /\ ret.rank = 2 /\ ret.cols = dist.d /\ Len(ret.m2) = Len(x)
        /\ \A i \in 1..Len(x) : \A j \in 1..dist.d :
                ret.m2[i][j] =
                    RatMul(RowLogProb(dist.spike_d, i, T1("float", <<1>>)).p,
                           forward(dist.slab_d, XRow(i)).m2[1][j])

\* C23 witness: forward returned a matrix with a nonzero entry for a spike-and-slab
\* distribution over several variables whose spike depends on x, on several rows
C23_Witness ==
    /\ op = "forward" /\ dist.kind = "SpikeSlab" /\ dist.d > 1 /\ Len(x) > 1
    /\ dist.spike_d.log_prob_fcn = QuarterThenMore
    /\ ~IsErr(ret)
    /\ \E i \in 1..Len(x) : ret.m2[i][1] # RatInt(0)

\* the output of the log-probability function of a Bernoulli distribution at row i of x
GateOutput(d, i) == LLLog(d.log_prob_fcn.f[x[i]])

\* C24: Bernoulli log_prob(x, y) of a rank-1 0/1 tensor y with one entry per row of x
\* returns at row i the output of the log-probability function at x[i] when y[i] = 1
\* and log(1 - exp(that output)) when y[i] = 0; with y all zeros and a function that
\* returns log(0.5) everywhere every row is log(0.5)
C24_BernoulliLogProbValues ==
    (op = "log_prob" /\ dist.kind = "Bernoulli" /\ IsT1(arg) /\ Rows(arg) = Len(x)) =>
        /\ IsL1(ret) /\ Rows(ret) = Len(x)
        /\ \A i \in 1..Len(x) :
                ret.ll1[i] =
                    IF arg.v1[i] = 1 THEN GateOutput(dist, i)
                    ELSE LLLog(RatSub(RatInt(1), GateOutput(dist, i).p))
        /\ (dist.log_prob_fcn = HalfEverywhere /\ \A i \in 1..Len(x) : arg.v1[i] = 0) =>
                \A i \in 1..Len(x) : ret.ll1[i] = LLLog(Rat(1, 2))

\* C24 witness: Bernoulli log_prob returned for a y that holds a 0 and a 1, with a
\* log-probability function that differs from log(0.5)
C24_Witness ==
    /\ op = "log_prob" /\ dist.kind = "Bernoulli" /\ IsT1(arg) /\ IsL1(ret)
    /\ dist.log_prob_fcn = QuarterThenMore
    /\ \E i, h \in 1..Len(x) : arg.v1[i] = 0 /\ arg.v1[h] = 1

C26_LeafPartitionOneSided ==
    /\ dist.kind = "Bernoulli" =>
            /\ op = "r_params" => ret.params = <<>>
            /\ op = "s_params" => Range(ret.params) = Range(dist.log_prob_fcn.parameters)
    /\ dist.kind = "Gaussian" =>
            /\ op = "r_params" =>
                    Range(ret.params) = Range(dist.mn_f_parameters) \cup Range(dist.std_f_parameters)
            /\ op = "s_params" => ret.params = <<>>

\* C26 witness: r_params of a Gaussian distribution returned the parameters of both its
\* mean function and its scale function
C26_Witness ==
    /\ op = "r_params" /\ dist.kind = "Gaussian"
    /\ Range(ret.params) \cap Range(dist.mn_f_parameters) # {}
    /\ Range(ret.params) \cap Range(dist.std_f_parameters) # {}

\* the operations that compute tensors
TensorOps == {"forward", "sample", "log_prob", "kl", "form_standard_sample", "form_compact_sample"}

RowOf(y, i) == IF y.rank = 1 THEN <<y.v1[i]>> ELSE y.v2[i]
\* the sum of the squares of the entries of a row
RECURSIVE SumSq(_)
SumSq(row) == IF row = <<>> THEN 0 ELSE Head(row) * Head(row) + SumSq(Tail(row))

\* C28: for a Gaussian distribution whose mean function returns 0 and whose scale
\* function returns 1 everywhere, log_prob(x, y) of a y with one row per row of x and
\* the d_y columns of the distribution (one column for a rank-1 y) is for each row i
\* -0.5 * sum_j y[i,j]^2 - (d_y/2) * log(2*pi); for d_y = 1 and y[i] = 0 that is
\* -0.5 * log(2*pi)
C28_StandardNormalDensity ==
    (/\ op = "log_prob" /\ dist.kind = "Gaussian"
     /\ dist.mn = 0 /\ dist.slope = 0 /\ dist.std = 1
     /\ IsTensor(arg) /\ Rows(arg) = Len(x) /\ Len(RowOf(arg, 1)) = dist.d_y) =>
        /\ IsL1(ret) /\ Rows(ret) = Len(x)
        /\ \A i \in 1..Len(x) :
                /\ ret.ll1[i] = LL(RatInt(SumSq(RowOf(arg, i))), RatInt(1), Len(RowOf(arg, i)))
                /\ RowOf(arg, i) = <<0>> => ret.ll1[i] = LL(RatInt(0), RatInt(1), 1)

\* C28 witness: log_prob of the standard-normal Gaussian distribution over several
\* variables returned for a y of several rows that holds an entry 2
C28_Witness ==
    /\ op = "log_prob" /\ dist.kind = "Gaussian"
    /\ dist.mn = 0 /\ dist.slope = 0 /\ dist.std = 1 /\ dist.d_y > 1
    /\ IsT2(arg) /\ Rows(arg) = Len(x) /\ Len(x) > 1 /\ arg.cols = dist.d_y
    /\ arg.v2[1][1] = 2
    /\ IsL1(ret)

\* C29: for every distribution, composites of any children included, every trainable
\* parameter of the sub-function modules of the distribution and of its children is in
\* the list r_params returns or in the list s_params returns
C29_PartitionCovers ==
    /\ op = "r_params" =>
            Range(ModuleParameters(dist)) \subseteq Range(ret.params) \cup Range(s_params(dist))
    /\ op = "s_params" =>
            Range(ModuleParameters(dist)) \subseteq Range(ret.params) \cup Range(r_params(dist))

\* the rows of a dense matrix that hold a zero entry and a nonzero entry
MixedRows(m) ==
    {i \in 1..Rows(m) : (\E j \in 1..m.cols : m.v2[i][j] = 0) /\ (\E j \in 1..m.cols : m.v2[i][j] # 0)}

\* C30: for a spike-and-slab distribution with d > 1, form_compact_sample of a dense
\* sample leaves a row that holds a zero and a nonzero entry out of the support and out
\* of nz_vls, which holds exactly the rows without a zero; form_standard_sample of the
\* result has an all-zero row in the place of such a row and reproduces the rows whose
\* d entries are all nonzero
C30_MixedRowsAreInactive ==
    /\ (op = "form_compact_sample" /\ dist.kind = "SpikeSlab" /\ dist.d > 1) =>
            /\ ~IsErr(ret)
            /\ \A i \in MixedRows(arg) : i \notin ActiveRows(ret.support)
            /\ IF FullRows(arg) = {} THEN IsNone(ret.nz_vls)
               ELSE ret.nz_vls.v2 =
                        [k \in 1..Cardinality(FullRows(arg)) |-> arg.v2[KthOf(FullRows(arg), k)]]
    /\ (dist.kind = "SpikeSlab" /\ dist.d > 1 /\ ~IsNone(std2)) =>
            /\ IsT2(std2) /\ Rows(std2) = Rows(std) /\ std2.cols = dist.d
            /\ \A i \in 1..Rows(std) :
                    std2.v2[i] = IF i \in FullRows(std) THEN std.v2[i]
                                 ELSE [j \in 1..dist.d |-> 0]

\* C30 witness: for a spike-and-slab distribution over several variables the dense
\* sample held a row with a zero and a nonzero entry and a row without a zero, and
\* the standard form of its compact form was formed
C30_Witness ==
    /\ dist.kind = "SpikeSlab" /\ dist.d > 1 /\ IsT2(std2)
    /\ MixedRows(std) # {} /\ FullRows(std) # {}
    /\ \A i \in MixedRows(std) : \A j \in 1..dist.d : std2.v2[i][j] = 0

====
